---- MODULE Spec2Model ----
(***************************************************************************)
(* Video watch-progress tracker of conceptcapsules.                        *)
(*                                                                         *)
(* Progress Store: the useVideoProgress hook (latest revision, storage key *)
(* concept-capsule-progress-v3): an in-memory map byteId -> record kept in *)
(* React state, mirrored to localStorage on every mutation and loaded and  *)
(* normalized once on mount.                                               *)
(*                                                                         *)
(* Percentages are JavaScript numbers.  They are modelled in fixed point:  *)
(* one unit is 1/PctUnit of a percent, so that watchTime / 60 * 100 and    *)
(* watchTime / 30 * 100 are exact.                                         *)
(***************************************************************************)
EXTENDS Integers, FiniteSets, Sequences, TLC

VARIABLES
    progress,   \* useState<VideoProgress>: function from the present byteIds to records
    storage,    \* localStorage[PROGRESS_STORAGE_KEY]
    loaded,     \* the mount effect of useVideoProgress has run
    now,        \* Date.now()
    threw,      \* an exception escaped the last call to its caller
    op,         \* the last call: name, arguments, storage outcome, target's prior record
    lastWrite,  \* the storage call made by the last call, if any
    failures,   \* storage calls that have failed so far
    ui,         \* React state and refs of Watch and VideoPlayer
    events,     \* user events (clicks, visibility changes) so far
    calls,      \* history: the store calls the page made in the last step, in order
    session     \* history: what the estimator has forwarded since the last session reset

vars == <<progress, storage, loaded, now, threw, op, lastWrite, failures, ui, events,
          calls, session>>

----------------------------------------------------------------------------
(* Bounds and input sets *)

MaxClock == 1

MaxFailures == 1

PctUnit == 3

P(x) == x * PctUnit

Full == P(100)

CompletionThreshold == P(95)

Items == {"a", "b"}

\* byteId arguments: the items and the empty string, which the guards reject
ByteIds == Items \cup {""}

\* percentage arguments: below 0, 0, just under 95 (94 2/3), 95, above 100
InputPcts == {P(-5), 0, P(95) - 1, P(95), P(105)}

Min(a, b) == IF a < b THEN a ELSE b

----------------------------------------------------------------------------
(* Records and the persisted form *)

EmptyMap == [k \in {} |-> 0]

Has(m, k) == k \in DOMAIN m

\* { ...prev, [byteId]: rec }
Put(m, k, rec) == [x \in DOMAIN m \cup {k} |-> IF x = k THEN rec ELSE m[x]]

\* const { [byteId]: removed, ...rest } = prev
Without(m, k) == [x \in DOMAIN m \ {k} |-> m[x]]

\* JSON.stringify of the map: the members "key": value of the JSON object
Stringify(m) == [kind |-> "json", members |-> {<<k, m[k]>> : k \in DOMAIN m}]

\* JSON.parse of a stored JSON object
Parse(s) ==
    [k \in {e[1] : e \in s.members} |-> (CHOOSE e \in s.members : e[1] = k)[2]]

NoData == [kind |-> "none"]

\* text that JSON.parse rejects
Corrupt == [kind |-> "corrupt"]

\* valid JSON that is not a map of records (null, or a null entry)
Malformed == [kind |-> "malformed"]

NoWrite == [call |-> "none"]

\* records a previous version of the application may have left behind
LegacyRecords ==
    { [watchedSeconds |-> 12, duration |-> 30, percentage |-> P(60),
       lastWatched |-> 0, isCompleted |-> TRUE],
      [watchedSeconds |-> 0, duration |-> 0, percentage |-> P(96),
       lastWatched |-> 0, isCompleted |-> FALSE],
      [watchedSeconds |-> 7, duration |-> 30, percentage |-> P(50),
       lastWatched |-> 0, isCompleted |-> FALSE] }

\* the item that has legacy data
LegacyItems == {"a"}

LegacyMaps ==
    UNION { [S -> LegacyRecords] : S \in SUBSET LegacyItems }

InitialStorages ==
    {NoData, Corrupt, Malformed} \cup {Stringify(m) : m \in LegacyMaps}

----------------------------------------------------------------------------
(* localStorage *)

\* localStorage.setItem(KEY, text): throws (quota, access denied) when fail
setItem(st, text, fail) ==
    IF fail THEN [storage |-> st, threw |-> TRUE, write |-> [call |-> "setItem", text |-> text]]
    ELSE [storage |-> text, threw |-> FALSE, write |-> [call |-> "setItem", text |-> text]]

\* localStorage.removeItem(KEY)
removeItem(st, fail) ==
    IF fail THEN [storage |-> st, threw |-> TRUE, write |-> [call |-> "removeItem"]]
    ELSE [storage |-> NoData, threw |-> FALSE, write |-> [call |-> "removeItem"]]

\* a saveProgress that lets the storage exception through
saveProgress_NoCatch(st, newProgress, fail) ==
    setItem(st, Stringify(newProgress), fail)

\* saveProgress: try { setItem } catch { console.error }
saveProgress(st, newProgress, fail) ==
    [setItem(st, Stringify(newProgress), fail) EXCEPT !.threw = FALSE]

\* the result of a call that returns before touching anything
NoChange(prev, st) ==
    [progress |-> prev, storage |-> st, threw |-> FALSE, write |-> NoWrite]

\* setProgress(prev => { ...; saveProgress(next); return next; }): when the
\* save throws inside the updater the new state is never returned
Commit(prev, next, saved) ==
    [progress |-> IF saved.threw THEN prev ELSE next,
     storage |-> saved.storage, threw |-> saved.threw, write |-> saved.write]

----------------------------------------------------------------------------
(* The operations of useVideoProgress *)

\* the earlier revision of updateProgress: a completed record takes the new
\* percentage and keeps its flag
updateProgress_NoFreeze(prev, st, byteId, percentage, t, fail) ==
    IF byteId = "" \/ percentage < 0 THEN NoChange(prev, st)
    ELSE LET clampedPercentage == Min(percentage, Full)
             exists == Has(prev, byteId)
         IN  IF exists /\ prev[byteId].percentage > clampedPercentage
                       /\ ~prev[byteId].isCompleted
             THEN NoChange(prev, st)
             ELSE LET newProgress ==
                          Put(prev, byteId,
                              [watchedSeconds |-> 0, duration |-> 0,
                               percentage |-> clampedPercentage,
                               lastWatched |-> t,
                               isCompleted |-> (exists /\ prev[byteId].isCompleted)
                                               \/ clampedPercentage >= CompletionThreshold])
                  IN  Commit(prev, newProgress, saveProgress(st, newProgress, fail))

\* an updateProgress without the "don't decrease progress" guard
updateProgress_NoMonotone(prev, st, byteId, percentage, t, fail) ==
    IF byteId = "" \/ percentage < 0 THEN NoChange(prev, st)
    ELSE LET clampedPercentage == Min(percentage, Full)
             exists == Has(prev, byteId)
         IN  IF exists /\ prev[byteId].isCompleted
             THEN IF prev[byteId].percentage # Full
                  THEN LET repairedProgress ==
                               Put(prev, byteId, [prev[byteId] EXCEPT !.percentage = Full])
                       IN  Commit(prev, repairedProgress,
                                  saveProgress(st, repairedProgress, fail))
                  ELSE NoChange(prev, st)
             ELSE LET isNowCompleted == clampedPercentage >= CompletionThreshold
                      finalPercentage == IF isNowCompleted THEN Full ELSE clampedPercentage
                      newProgress ==
                          Put(prev, byteId,
                              [watchedSeconds |-> 0, duration |-> 0,
                               percentage |-> finalPercentage,
                               lastWatched |-> t,
                               isCompleted |-> isNowCompleted])
                  IN  Commit(prev, newProgress, saveProgress(st, newProgress, fail))

\* an updateProgress that stores the reported value at the threshold instead of 100
updateProgress_NoPin(prev, st, byteId, percentage, t, fail) ==
    IF byteId = "" \/ percentage < 0 THEN NoChange(prev, st)
    ELSE LET clampedPercentage == Min(percentage, Full)
             exists == Has(prev, byteId)
         IN  IF exists /\ prev[byteId].isCompleted
             THEN IF prev[byteId].percentage # Full
                  THEN LET repairedProgress ==
                               Put(prev, byteId, [prev[byteId] EXCEPT !.percentage = Full])
                       IN  Commit(prev, repairedProgress,
                                  saveProgress(st, repairedProgress, fail))
                  ELSE NoChange(prev, st)
             ELSE IF exists /\ prev[byteId].percentage > clampedPercentage
             THEN NoChange(prev, st)
             ELSE LET isNowCompleted == clampedPercentage >= Full
                      finalPercentage == clampedPercentage
                      newProgress ==
                          Put(prev, byteId,
                              [watchedSeconds |-> 0, duration |-> 0,
                               percentage |-> finalPercentage,
                               lastWatched |-> t,
                               isCompleted |-> isNowCompleted])
                  IN  Commit(prev, newProgress, saveProgress(st, newProgress, fail))

\* an updateProgress that clamps a negative percentage to 0 instead of returning
updateProgress_ClampLow(prev, st, byteId, percentage, t, fail) ==
    IF byteId = "" THEN NoChange(prev, st)
    ELSE LET clampedPercentage == IF percentage < 0 THEN 0 ELSE Min(percentage, Full)
             exists == Has(prev, byteId)
         IN  IF exists /\ prev[byteId].isCompleted
             THEN IF prev[byteId].percentage # Full
                  THEN LET repairedProgress ==
                               Put(prev, byteId, [prev[byteId] EXCEPT !.percentage = Full])
                       IN  Commit(prev, repairedProgress,
                                  saveProgress(st, repairedProgress, fail))
                  ELSE NoChange(prev, st)
             ELSE IF exists /\ prev[byteId].percentage > clampedPercentage
             THEN NoChange(prev, st)
             ELSE LET isNowCompleted == clampedPercentage >= CompletionThreshold
                      finalPercentage == IF isNowCompleted THEN Full ELSE clampedPercentage
                      newProgress ==
                          Put(prev, byteId,
                              [watchedSeconds |-> 0, duration |-> 0,
                               percentage |-> finalPercentage,
                               lastWatched |-> t,
                               isCompleted |-> isNowCompleted])
                  IN  Commit(prev, newProgress, saveProgress(st, newProgress, fail))

\* an updateProgress that rewrites a completed record on every call
updateProgress_Rewrite(prev, st, byteId, percentage, t, fail) ==
    IF byteId = "" \/ percentage < 0 THEN NoChange(prev, st)
    ELSE LET clampedPercentage == Min(percentage, Full)
             exists == Has(prev, byteId)
         IN  IF exists /\ prev[byteId].isCompleted
             THEN LET repairedProgress ==
                          Put(prev, byteId,
                              [prev[byteId] EXCEPT !.percentage = Full, !.lastWatched = t])
                  IN  Commit(prev, repairedProgress,
                             saveProgress(st, repairedProgress, fail))
             ELSE IF exists /\ prev[byteId].percentage > clampedPercentage
             THEN NoChange(prev, st)
             ELSE LET isNowCompleted == clampedPercentage >= CompletionThreshold
                      finalPercentage == IF isNowCompleted THEN Full ELSE clampedPercentage
                      newProgress ==
                          Put(prev, byteId,
                              [watchedSeconds |-> 0, duration |-> 0,
                               percentage |-> finalPercentage,
                               lastWatched |-> t,
                               isCompleted |-> isNowCompleted])
                  IN  Commit(prev, newProgress, saveProgress(st, newProgress, fail))

\* updateProgress(byteId, percentage)
updateProgress(prev, st, byteId, percentage, t, fail) ==
    IF byteId = "" \/ percentage < 0 THEN NoChange(prev, st)
    ELSE LET clampedPercentage == Min(percentage, Full)
             exists == Has(prev, byteId)
         IN  IF exists /\ prev[byteId].isCompleted
             THEN IF prev[byteId].percentage # Full
                  THEN LET repairedProgress ==
                               Put(prev, byteId, [prev[byteId] EXCEPT !.percentage = Full])
                       IN  Commit(prev, repairedProgress,
                                  saveProgress(st, repairedProgress, fail))
                  ELSE NoChange(prev, st)
             ELSE IF exists /\ prev[byteId].percentage > clampedPercentage
             THEN NoChange(prev, st)
             ELSE LET isNowCompleted == clampedPercentage >= CompletionThreshold
                      finalPercentage == IF isNowCompleted THEN Full ELSE clampedPercentage
                      newProgress ==
                          Put(prev, byteId,
                              [watchedSeconds |-> 0, duration |-> 0,
                               percentage |-> finalPercentage,
                               lastWatched |-> t,
                               isCompleted |-> isNowCompleted])
                  IN  Commit(prev, newProgress, saveProgress(st, newProgress, fail))

\* a markCompleted that lets the existing record's fields win the spread
markCompleted_KeepExisting(prev, st, byteId, t, fail) ==
    IF byteId = "" THEN NoChange(prev, st)
    ELSE LET existing ==
                 IF Has(prev, byteId) THEN prev[byteId]
                 ELSE [watchedSeconds |-> 0, duration |-> 0, percentage |-> Full,
                       lastWatched |-> t, isCompleted |-> FALSE]
             newProgress ==
                 Put(prev, byteId, [existing EXCEPT !.lastWatched = t])
         IN  Commit(prev, newProgress, saveProgress(st, newProgress, fail))

\* markCompleted(byteId)
markCompleted(prev, st, byteId, t, fail) ==
    IF byteId = "" THEN NoChange(prev, st)
    ELSE LET existing ==
                 IF Has(prev, byteId) THEN prev[byteId]
                 ELSE [watchedSeconds |-> 0, duration |-> 0, percentage |-> Full,
                       lastWatched |-> t, isCompleted |-> FALSE]
             newProgress ==
                 Put(prev, byteId,
                     [existing EXCEPT !.percentage = Full, !.isCompleted = TRUE,
                                      !.lastWatched = t])
         IN  Commit(prev, newProgress, saveProgress(st, newProgress, fail))

\* resetAllProgress(): try { removeItem; setProgress({}) } catch { console.error }
resetAllProgress(prev, st, fail) ==
    LET removed == removeItem(st, fail)
    IN  IF removed.threw
        THEN [progress |-> prev, storage |-> removed.storage, threw |-> FALSE,
              write |-> removed.write]
        ELSE [progress |-> EmptyMap, storage |-> removed.storage, threw |-> FALSE,
              write |-> removed.write]

\* resetVideoProgress(byteId)
resetVideoProgress(prev, st, byteId, fail) ==
    IF byteId = "" THEN NoChange(prev, st)
    ELSE LET rest == Without(prev, byteId)
         IN  Commit(prev, rest, saveProgress(st, rest, fail))

\* getProgress(byteId): progress[byteId] || null
Null == [null |-> TRUE]

getProgress(prog, byteId) == IF Has(prog, byteId) THEN prog[byteId] ELSE Null

\* isCompleted(byteId): progress[byteId]?.isCompleted || false
isCompleted(prog, byteId) == Has(prog, byteId) /\ prog[byteId].isCompleted

\* getCompletedVideos()
getCompletedVideos(prog) == {k \in DOMAIN prog : prog[k].isCompleted}

----------------------------------------------------------------------------
(* Load and normalization (the mount effect) *)

\* a normalization that repairs the percentage of completed records only
Normalize_NoPromote(data) ==
    IF data.isCompleted /\ data.percentage # Full
    THEN [data |-> [data EXCEPT !.percentage = Full], changed |-> TRUE]
    ELSE [data |-> data, changed |-> FALSE]

\* the reducer body: one record of the parsed map
Normalize(data) ==
    LET repaired ==
            IF data.isCompleted /\ data.percentage # Full
            THEN [data EXCEPT !.percentage = Full] ELSE data
        promoted ==
            IF data.percentage >= CompletionThreshold /\ ~data.isCompleted
            THEN [repaired EXCEPT !.isCompleted = TRUE, !.percentage = Full]
            ELSE repaired
    IN  [data |-> promoted,
         changed |-> (data.isCompleted /\ data.percentage # Full)
                     \/ (data.percentage >= CompletionThreshold /\ ~data.isCompleted)]



\* a load effect that normalizes in memory only
loadProgress_NoWriteBack(prev, st, readFail, writeFail) ==
    IF readFail THEN NoChange(prev, st)
    ELSE IF st.kind # "json" THEN NoChange(prev, st)
    ELSE [progress |-> [k \in DOMAIN Parse(st) |-> Normalize(Parse(st)[k]).data],
          storage |-> st, threw |-> FALSE, write |-> NoWrite]

\* useEffect(() => { try { getItem; parse; normalize; setProgress; setItem } catch {} }, [])
\* readFail: getItem throws.  Corrupt text makes JSON.parse throw, malformed
\* JSON makes the reducer throw; both before setProgress is reached.
loadProgress(prev, st, readFail, writeFail) ==
    IF readFail THEN NoChange(prev, st)
    ELSE IF st.kind = "none" THEN NoChange(prev, st)
    ELSE IF st.kind \in {"corrupt", "malformed"} THEN NoChange(prev, st)
    ELSE LET parsed == Parse(st)
             normalized == [k \in DOMAIN parsed |-> Normalize(parsed[k]).data]
             needsUpdate == \E k \in DOMAIN parsed : Normalize(parsed[k]).changed
         IN  IF needsUpdate
             THEN LET saved == setItem(st, Stringify(normalized), writeFail)
                  IN  [progress |-> normalized, storage |-> saved.storage,
                       threw |-> FALSE, write |-> saved.write]
             ELSE [progress |-> normalized, storage |-> st,
                   threw |-> FALSE, write |-> NoWrite]

----------------------------------------------------------------------------
(* Watch page and VideoPlayer: component state *)

\* the playlist (useBytes)
Bytes == <<"a", "b">>

NumBytes == Len(Bytes)

ESTIMATED_VIDEO_DURATION == 60

MaxLoops == 4

\* user events explored in one behaviour of the page
MaxUserEvents == 5

\* requests to the remote store that are in flight at one time
MaxInFlight == 3

\* no percentage forwarded yet in this session
NoSession == [reported |-> -1, wiped |-> FALSE]

\* the useState / useRef initial values of Watch and VideoPlayer
InitialUi ==
    [currentByte |-> 1,             \* index into Bytes of Watch.currentByte
     autoStartVideo |-> FALSE,      \* Watch.autoStartVideo
     autoStartTimer |-> FALSE,      \* Watch: setTimeout(() => setAutoStartVideo(false), 500) pending
     hasUserEngaged |-> FALSE,
     showStartOverlay |-> TRUE,
     isWatching |-> FALSE,
     watchTime |-> 0,
     loopCount |-> 0,
     isTabVisible |-> TRUE,
     progressInterval |-> FALSE,    \* progressIntervalRef.current holds a live interval
     didMarkCompleted |-> FALSE,    \* didMarkCompletedRef.current
     advanceTimer |-> FALSE]        \* setTimeout(() => onNext(), 1000) pending

----------------------------------------------------------------------------
(* Actions of the Progress Store *)

\* the record of a call: its arguments and whether the storage calls it made failed
Call(name, byteId, percentage, failed) ==
    [name |-> name, id |-> byteId, pct |-> percentage, fail |-> failed,
     readFail |-> FALSE]

\* the outcomes a storage call can have: it fails only while the budget lasts
Outcomes == IF failures < MaxFailures THEN BOOLEAN ELSE {FALSE}

Apply(r, failed) ==
    /\ failures' = IF failed THEN failures + 1 ELSE failures
    /\ progress' = r.progress
    /\ storage' = r.storage
    /\ threw' = r.threw
    /\ lastWrite' = r.write

Load ==
    /\ ~loaded
    /\ \E readFail \in Outcomes, writeFail \in Outcomes :
         LET r == loadProgress(progress, storage, readFail, writeFail)
         IN  /\ writeFail => r.write # NoWrite
             /\ ~(readFail /\ writeFail)
             /\ Apply(r, readFail \/ writeFail)
             /\ op' = [Call("load", "", 0, writeFail) EXCEPT !.readFail = readFail]
    /\ loaded' = TRUE
    /\ UNCHANGED <<now, ui, events, calls, session>>

UpdateProgress ==
    /\ loaded
    /\ \E byteId \in ByteIds, percentage \in InputPcts, fail \in Outcomes :
         LET r == updateProgress(progress, storage, byteId, percentage, now, fail)
         IN  /\ fail => r.write # NoWrite
             /\ Apply(r, fail)
             /\ op' = Call("updateProgress", byteId, percentage, fail)
    /\ UNCHANGED <<loaded, now, ui, events, calls, session>>

MarkCompleted ==
    /\ loaded
    /\ \E byteId \in ByteIds, fail \in Outcomes :
         LET r == markCompleted(progress, storage, byteId, now, fail)
         IN  /\ fail => r.write # NoWrite
             /\ Apply(r, fail)
             /\ op' = Call("markCompleted", byteId, 0, fail)
    /\ UNCHANGED <<loaded, now, ui, events, calls, session>>

ResetAll ==
    /\ loaded
    /\ \E fail \in Outcomes :
         LET r == resetAllProgress(progress, storage, fail)
         IN  /\ Apply(r, fail)
             /\ op' = Call("resetAllProgress", "", 0, fail)
    /\ UNCHANGED <<loaded, now, ui, events, calls, session>>

ResetOne ==
    /\ loaded
    /\ \E byteId \in ByteIds, fail \in Outcomes :
         LET r == resetVideoProgress(progress, storage, byteId, fail)
         IN  /\ fail => r.write # NoWrite
             /\ Apply(r, fail)
             /\ op' = Call("resetVideoProgress", byteId, 0, fail)
    /\ UNCHANGED <<loaded, now, ui, events, calls, session>>

\* the page is closed and opened again: React state is lost, localStorage stays
Restart ==
    /\ loaded
    /\ progress' = EmptyMap
    /\ loaded' = FALSE
    /\ threw' = FALSE
    /\ lastWrite' = NoWrite
    /\ op' = Call("restart", "", 0, FALSE)
    /\ UNCHANGED <<storage, now, failures, ui, events, calls, session>>

\* the wall clock advances
TimePasses ==
    /\ now < MaxClock
    /\ now' = now + 1
    /\ op' = Call("time", "", 0, FALSE)
    /\ lastWrite' = NoWrite
    /\ threw' = FALSE
    /\ UNCHANGED <<progress, storage, loaded, failures, ui, events, calls, session>>

Init ==
    /\ progress = EmptyMap
    /\ storage \in InitialStorages
    /\ loaded = FALSE
    /\ now = 0
    /\ threw = FALSE
    /\ op = Call("init", "", 0, FALSE)
    /\ lastWrite = NoWrite
    /\ failures = 0
    /\ ui = InitialUi
    /\ events = 0
    /\ calls = <<>>
    /\ session = NoSession

Next ==
    \/ Load
    \/ UpdateProgress
    \/ MarkCompleted
    \/ ResetAll
    \/ ResetOne
    \/ Restart
    \/ TimePasses

Spec == Init /\ [][Next]_vars

\* The updater functions applied to any map of the declared type, consistent
\* or not: the state is drawn from the legacy maps without normalization.
InitUpdater ==
    /\ progress \in LegacyMaps
    /\ storage = Stringify(progress)
    /\ loaded = TRUE
    /\ now = 0
    /\ threw = FALSE
    /\ op = Call("init", "", 0, FALSE)
    /\ lastWrite = NoWrite
    /\ failures = 0
    /\ ui = InitialUi
    /\ events = 0
    /\ calls = <<>>
    /\ session = NoSession

SpecUpdater == InitUpdater /\ [][Next]_vars

----------------------------------------------------------------------------
(* VideoPlayer effects.  An event handler, the renders it causes and the   *)
(* effects of those renders run to quiescence as one step.  x is the       *)
(* state being built (queued setState calls and refs applied in order),    *)
(* c the values the current render closed over, d those of the render      *)
(* before it (for the dependency arrays).                                  *)

\* what a render of Watch and VideoPlayer reads
Render(x) ==
    [mounted |-> TRUE,
     byte |-> x.ui.currentByte,
     autoStart |-> x.ui.autoStartVideo,
     hasUserEngaged |-> x.ui.hasUserEngaged,
     showStartOverlay |-> x.ui.showStartOverlay,
     isWatching |-> x.ui.isWatching,
     isTabVisible |-> x.ui.isTabVisible,
     watchTime |-> x.ui.watchTime,
     loopCount |-> x.ui.loopCount,
     \* isCompleted={completedVideos.includes(currentByte.byte_id)}
     isCompleted |-> Bytes[x.ui.currentByte] \in getCompletedVideos(x.progress),
     \* currentProgress = getProgress(currentByte.byte_id)?.percentage || 0
     currentProgress |->
         IF getProgress(x.progress, Bytes[x.ui.currentByte]) = Null THEN 0
         ELSE getProgress(x.progress, Bytes[x.ui.currentByte]).percentage]

\* before the first render
Unmounted == [Render([ui |-> InitialUi, progress |-> EmptyMap]) EXCEPT !.mounted = FALSE]

\* an estimate over a duration one second longer
EstimatedPercentage_LongerDuration(watchTime) ==
    Min((watchTime * P(100)) \div (ESTIMATED_VIDEO_DURATION + 1), Full)

\* Math.min((watchTime / ESTIMATED_VIDEO_DURATION) * 100, 100)
EstimatedPercentage(watchTime) ==
    Min((watchTime * P(100)) \div ESTIMATED_VIDEO_DURATION, Full)

\* a store call as the page made it: by is the caller, watchTime, stored and
\* completed are the values the calling render had closed over, inStore is
\* the percentage the store holds for the item when the call is made, prior
\* is the percentage last forwarded in the session and wiped tells that the
\* store was reset since
Made(name, by, byteId, percentage, c, x) ==
    [name |-> name, by |-> by, id |-> byteId, pct |-> percentage,
     watchTime |-> c.watchTime, stored |-> c.currentProgress,
     completed |-> c.isCompleted,
     inStore |-> IF getProgress(x.progress, byteId) = Null THEN 0
                 ELSE getProgress(x.progress, byteId).percentage,
     prior |-> x.session.reported,
     wiped |-> x.session.wiped]

\* a store call made from the component: the storage layer works
StoreCall(x, call, r) ==
    [x EXCEPT !.progress = r.progress, !.storage = r.storage,
              !.calls = Append(@, call)]

\* Watch.handleProgressUpdate
handleProgressUpdate(x, c, percentage, t) ==
    [StoreCall(x, Made("updateProgress", "progress effect", Bytes[c.byte], percentage, c, x),
               updateProgress(x.progress, x.storage, Bytes[c.byte], percentage, t, FALSE))
     EXCEPT !.session = [reported |-> percentage, wiped |-> FALSE]]

\* onMarkCompleted={() => markCompleted(currentByte.byte_id)}
onMarkCompleted(x, c, t) ==
    StoreCall(x, Made("markCompleted", "mark effect", Bytes[c.byte], Full, c, x),
              markCompleted(x.progress, x.storage, Bytes[c.byte], t, FALSE))

\* cleanups of the effects whose dependencies changed
Cleanups(x, c, d) ==
    LET interval == ~d.mounted \/ c.byte # d.byte \/ c.isWatching # d.isWatching
                    \/ c.isTabVisible # d.isTabVisible
        advance == ~d.mounted \/ c.loopCount # d.loopCount \/ c.byte # d.byte
        autoStart == ~d.mounted \/ c.byte # d.byte \/ c.autoStart # d.autoStart
    IN  [x EXCEPT !.ui.progressInterval = IF interval THEN FALSE ELSE @,
                  !.ui.advanceTimer = IF advance THEN FALSE ELSE @,
                  !.ui.autoStartTimer = IF autoStart THEN FALSE ELSE @]

\* "Reset watch time/loop count when byte changes": [byte.byte_id, hasUserEngaged, autoStart]
ResetEffect(x, c, d) ==
    IF d.mounted /\ c.byte = d.byte /\ c.hasUserEngaged = d.hasUserEngaged
       /\ c.autoStart = d.autoStart
    THEN x
    ELSE [x EXCEPT !.ui.watchTime = 0,
                   !.ui.loopCount = 0,
                   !.ui.didMarkCompleted = FALSE,
                   !.ui.showStartOverlay = ~(c.hasUserEngaged /\ c.autoStart),
                   !.ui.isWatching = c.hasUserEngaged /\ c.autoStart,
                   !.ui.progressInterval = FALSE,
                   !.session = NoSession]

\* [autoStart, hasUserEngaged, isWatching, showStartOverlay]
AutoStartEffect(x, c, d) ==
    IF d.mounted /\ c.autoStart = d.autoStart /\ c.hasUserEngaged = d.hasUserEngaged
       /\ c.isWatching = d.isWatching /\ c.showStartOverlay = d.showStartOverlay
    THEN x
    ELSE IF c.autoStart /\ c.hasUserEngaged /\ ~c.isWatching /\ ~c.showStartOverlay
         THEN [x EXCEPT !.ui.isWatching = TRUE]
         ELSE x

\* an interval effect that does not look at the tab's visibility
IntervalEffect_IgnoreVisibility(x, c, d) ==
    IF d.mounted /\ c.byte = d.byte /\ c.isWatching = d.isWatching
       /\ c.isTabVisible = d.isTabVisible
    THEN x
    ELSE [x EXCEPT !.ui.progressInterval = c.isWatching]

\* "Track watch time with interval": [byte.byte_id, isWatching, isTabVisible]
IntervalEffect(x, c, d) ==
    IF d.mounted /\ c.byte = d.byte /\ c.isWatching = d.isWatching
       /\ c.isTabVisible = d.isTabVisible
    THEN x
    ELSE IF ~c.isWatching \/ ~c.isTabVisible
         THEN [x EXCEPT !.ui.progressInterval = FALSE]
         ELSE [x EXCEPT !.ui.progressInterval = TRUE]

\* a progress effect that forwards every percentage of a not completed item
ProgressEffect_NoCompare(x, c, d, t) ==
    IF d.mounted /\ c.watchTime = d.watchTime /\ c.isCompleted = d.isCompleted
       /\ c.isWatching = d.isWatching /\ c.isTabVisible = d.isTabVisible
       /\ c.currentProgress = d.currentProgress /\ c.byte = d.byte
    THEN x
    ELSE IF ~c.isWatching \/ ~c.isTabVisible THEN x
    ELSE IF ~c.isCompleted
         THEN handleProgressUpdate(x, c, EstimatedPercentage(c.watchTime), t)
         ELSE x

\* "Calculate and update progress based on watch time"
ProgressEffect(x, c, d, t) ==
    IF d.mounted /\ c.watchTime = d.watchTime /\ c.isCompleted = d.isCompleted
       /\ c.isWatching = d.isWatching /\ c.isTabVisible = d.isTabVisible
       /\ c.currentProgress = d.currentProgress /\ c.byte = d.byte
    THEN x
    ELSE IF ~c.isWatching \/ ~c.isTabVisible THEN x
    ELSE LET percentage == EstimatedPercentage(c.watchTime)
         IN  IF ~c.isCompleted /\ percentage > c.currentProgress
             THEN handleProgressUpdate(x, c, percentage, t)
             ELSE x

\* "Explicitly mark as completed when threshold is reached": runs after every
\* render, onMarkCompleted being a new function each time
MarkEffect(x, c, d, t) ==
    IF c.isCompleted \/ x.ui.didMarkCompleted THEN x
    ELSE IF EstimatedPercentage(c.watchTime) >= CompletionThreshold
         THEN onMarkCompleted([x EXCEPT !.ui.didMarkCompleted = TRUE], c, t)
         ELSE x

\* a loop effect that counts the loop and keeps the watch time
LoopEffect_KeepTime(x, c, d) ==
    IF d.mounted /\ c.watchTime = d.watchTime /\ c.isWatching = d.isWatching
       /\ c.isTabVisible = d.isTabVisible
    THEN x
    ELSE IF ~c.isWatching \/ ~c.isTabVisible THEN x
    ELSE IF c.watchTime >= ESTIMATED_VIDEO_DURATION
         THEN [x EXCEPT !.ui.loopCount = @ + 1]
         ELSE x

\* "Track when a loop completes based on watch time": [watchTime, isWatching, isTabVisible]
LoopEffect(x, c, d) ==
    IF d.mounted /\ c.watchTime = d.watchTime /\ c.isWatching = d.isWatching
       /\ c.isTabVisible = d.isTabVisible
    THEN x
    ELSE IF ~c.isWatching \/ ~c.isTabVisible THEN x
    ELSE IF c.watchTime >= ESTIMATED_VIDEO_DURATION
         THEN [x EXCEPT !.ui.loopCount = @ + 1, !.ui.watchTime = 0]
         ELSE x

\* "Auto-advance after exactly 3 loops": [loopCount, nextByte, onNext]
AdvanceEffect(x, c, d) ==
    IF d.mounted /\ c.loopCount = d.loopCount /\ c.byte = d.byte
    THEN x
    ELSE IF c.loopCount = 3 /\ c.byte < NumBytes
         THEN [x EXCEPT !.ui.advanceTimer = TRUE]
         ELSE x

\* Watch: "Reset autoStartVideo after it's consumed": [currentByte, autoStartVideo]
AutoStartResetEffect(x, c, d) ==
    IF d.mounted /\ c.byte = d.byte /\ c.autoStart = d.autoStart
    THEN x
    ELSE IF c.autoStart THEN [x EXCEPT !.ui.autoStartTimer = TRUE] ELSE x

\* the effects of one commit, the child's before the parent's
Effects(x, d, t) ==
    LET c == Render(x)
        x0 == Cleanups(x, c, d)
        x1 == ResetEffect(x0, c, d)
        x2 == AutoStartEffect(x1, c, d)
        x3 == IntervalEffect(x2, c, d)
        x4 == ProgressEffect(x3, c, d, t)
        x5 == MarkEffect(x4, c, d, t)
        x6 == LoopEffect(x5, c, d)
        x7 == AdvanceEffect(x6, c, d)
    IN  AutoStartResetEffect(x7, c, d)

RECURSIVE Settle(_, _, _)
\* render and run effects until no effect changes anything
Settle(x, d, t) ==
    LET n == Effects(x, d, t)
    IN  IF n = x THEN x ELSE Settle(n, Render(x), t)

\* the component tree with the store it reads
View == [ui |-> ui, progress |-> progress, storage |-> storage,
         calls |-> <<>>, session |-> session]

\* an event handler changed the state to x: re-render from the current commit
Handle(name, x) ==
    \E n \in {Settle(x, Render(View), now)} :
        /\ ui' = n.ui
        /\ progress' = n.progress
        /\ storage' = n.storage
        /\ calls' = n.calls
        /\ session' = n.session
        /\ op' = Call(name, Bytes[ui.currentByte], 0, FALSE)
        /\ lastWrite' = NoWrite
        /\ threw' = FALSE
        /\ UNCHANGED <<loaded, now, failures>>

\* a click or a visibility change
UserEvent(name, x) ==
    /\ events < MaxUserEvents
    /\ events' = events + 1
    /\ Handle(name, x)

\* a timer callback
TimerEvent(name, x) ==
    /\ UNCHANGED events
    /\ Handle(name, x)

----------------------------------------------------------------------------
(* Events of the Watch page *)

\* document visibilitychange: setIsTabVisible(!document.hidden)
VisibilityChange ==
    /\ loaded
    /\ UserEvent("visibilitychange", [View EXCEPT !.ui.isTabVisible = ~@])

\* handleStartTracking: the overlay is rendered when showStartOverlay && !isCompleted
ClickStartOverlay ==
    /\ ui.showStartOverlay
    /\ ~Render(View).isCompleted
    /\ ui.isTabVisible
    /\ UserEvent("handleStartTracking",
              [View EXCEPT !.ui.hasUserEngaged = TRUE,
                           !.ui.showStartOverlay = FALSE,
                           !.ui.isWatching = TRUE])

\* the one-second interval fires: setWatchTime(prev => prev + 1).  Every render
\* that starts the 500 ms timer of Watch also changes a dependency of the reset
\* effect, which clears the interval, so a live interval was registered no
\* earlier than a pending 500 ms timer and comes due after it.
IntervalTick ==
    /\ ui.progressInterval
    /\ ~ui.autoStartTimer
    /\ ui.loopCount < MaxLoops
    /\ TimerEvent("tick", [View EXCEPT !.ui.watchTime = @ + 1])

\* Watch.handleSelectByte (playlist click)
SelectByte ==
    /\ ui.isTabVisible
    /\ \E b \in 1..NumBytes :
         UserEvent("handleSelectByte",
                [View EXCEPT !.ui.currentByte = b, !.ui.autoStartVideo = TRUE])

\* Watch.handleNext applied to the state x, c being the render it belongs to
handleNext(x, c, t) ==
    LET marked ==
            StoreCall(x, Made("markCompleted", "handleNext", Bytes[x.ui.currentByte],
                              Full, c, x),
                      markCompleted(x.progress, x.storage,
                                    Bytes[x.ui.currentByte], t, FALSE))
    IN  IF x.ui.currentByte < NumBytes
        THEN [marked EXCEPT !.ui.currentByte = @ + 1, !.ui.autoStartVideo = TRUE]
        ELSE marked

\* the Next button (disabled on the last byte) and the Up Next card
ClickNext ==
    /\ ui.isTabVisible
    /\ ui.currentByte < NumBytes
    /\ UserEvent("handleNext", handleNext(View, Render(View), now))

\* Watch.handlePrevious (button disabled on the first byte)
ClickPrevious ==
    /\ ui.isTabVisible
    /\ ui.currentByte > 1
    /\ UserEvent("handlePrevious",
              [View EXCEPT !.ui.currentByte = @ - 1, !.ui.autoStartVideo = TRUE])

\* the 500 ms timer of Watch fires: setAutoStartVideo(false)
AutoStartTimeout ==
    /\ ui.autoStartTimer
    /\ TimerEvent("autoStartTimeout",
              [View EXCEPT !.ui.autoStartTimer = FALSE, !.ui.autoStartVideo = FALSE])

\* the 1 s auto-advance timer fires: onNext()
AdvanceTimeout ==
    /\ ui.advanceTimer
    /\ TimerEvent("advanceTimeout",
              handleNext([View EXCEPT !.ui.advanceTimer = FALSE], Render(View), now))

\* Header: the reset button is shown when completed > 0; its dialog's action
\* is onResetProgress={resetAllProgress}
ClickResetProgress ==
    /\ ui.isTabVisible
    /\ getCompletedVideos(progress) # {}
    /\ \E r \in {resetAllProgress(progress, storage, FALSE)} :
         UserEvent("resetAllProgress",
                   [View EXCEPT !.progress = r.progress, !.storage = r.storage,
                                !.session.wiped = TRUE])

\* the page after mount: the store has loaded nothing, the first render's
\* effects have run
InitPlayer ==
    /\ progress = EmptyMap
    /\ storage = NoData
    /\ loaded = TRUE
    /\ now = 0
    /\ threw = FALSE
    /\ op = Call("init", "", 0, FALSE)
    /\ lastWrite = NoWrite
    /\ failures = 0
    /\ ui = Settle([ui |-> InitialUi, progress |-> EmptyMap, storage |-> NoData,
                     calls |-> <<>>, session |-> NoSession],
                   Unmounted, 0).ui
    /\ events = 0
    /\ calls = <<>>
    /\ session = NoSession

NextPlayer ==
    \/ VisibilityChange
    \/ ClickStartOverlay
    \/ IntervalTick
    \/ SelectByte
    \/ ClickNext
    \/ ClickPrevious
    \/ ClickResetProgress
    \/ AutoStartTimeout
    \/ AdvanceTimeout

SpecPlayer == InitPlayer /\ [][NextPlayer]_vars

----------------------------------------------------------------------------
(* VideoPlayer, iframe-fallback revision: the player that shows the Google  *)
(* Drive preview in an iframe and estimates progress from the time since   *)
(* the frame loaded.                                                       *)

\* byte.duration of the playlist's items, 0 for an item without the field
Duration == [a |-> 0, b |-> 4]

DEFAULT_DURATION == 30

\* a player whose default is one minute
videoDuration_LongerDefault(byteId) ==
    IF Duration[byteId] = 0 THEN 2 * DEFAULT_DURATION ELSE Duration[byteId]

\* const videoDuration = byte.duration || 30
videoDuration(byteId) ==
    IF Duration[byteId] = 0 THEN DEFAULT_DURATION ELSE Duration[byteId]

\* the useState / useRef initial values of Watch and this VideoPlayer
InitialFallbackUi ==
    [currentByte |-> 1,
     autoStartVideo |-> FALSE,
     autoStartTimer |-> FALSE,
     isPlaying |-> FALSE,
     loopCount |-> 0,
     useFallbackIframe |-> TRUE,
     iframeLoaded |-> FALSE,
     iframeError |-> FALSE,
     iframeKey |-> 0,
     videoError |-> FALSE,
     didMarkCompleted |-> FALSE,       \* didMarkCompletedRef.current
     iframeTimeout |-> FALSE,          \* iframeTimeoutRef.current holds a pending timeout
     videoEndedThisSession |-> FALSE,
     iframeWatchTime |-> 0,
     iframeIsWatching |-> FALSE,
     iframeInterval |-> FALSE,         \* iframeIntervalRef.current holds a live interval
     isTabVisible |-> TRUE,
     advanceTimer |-> FALSE,           \* setTimeout(() => onNext(), 1000) pending
     frameLoading |-> FALSE]           \* the mounted <iframe> has not fired load yet

\* what a render of Watch and this VideoPlayer reads
FallbackRender(x) ==
    [mounted |-> TRUE,
     byte |-> x.ui.currentByte,
     autoStart |-> x.ui.autoStartVideo,
     loopCount |-> x.ui.loopCount,
     useFallbackIframe |-> x.ui.useFallbackIframe,
     iframeLoaded |-> x.ui.iframeLoaded,
     iframeError |-> x.ui.iframeError,
     iframeKey |-> x.ui.iframeKey,
     iframeIsWatching |-> x.ui.iframeIsWatching,
     isTabVisible |-> x.ui.isTabVisible,
     watchTime |-> x.ui.iframeWatchTime,
     videoDuration |-> videoDuration(Bytes[x.ui.currentByte]),
     isCompleted |-> Bytes[x.ui.currentByte] \in getCompletedVideos(x.progress),
     currentProgress |->
         IF getProgress(x.progress, Bytes[x.ui.currentByte]) = Null THEN 0
         ELSE getProgress(x.progress, Bytes[x.ui.currentByte]).percentage,
     \* canProceedToNext = isCompleted || videoEndedThisSession || !requireCompletionForNext
     canProceedToNext |->
         \/ Bytes[x.ui.currentByte] \in getCompletedVideos(x.progress)
         \/ x.ui.videoEndedThisSession]

FallbackUnmounted ==
    [FallbackRender([ui |-> InitialFallbackUi, progress |-> EmptyMap])
     EXCEPT !.mounted = FALSE]

\* Math.min((iframeWatchTime / videoDuration) * 100, 100)
IframePercentage(watchTime, duration) ==
    Min((watchTime * P(100)) \div duration, Full)

\* the dependencies of the load-timeout effect changed
LoadTimeoutDeps(c, d) ==
    \/ ~d.mounted
    \/ c.useFallbackIframe # d.useFallbackIframe
    \/ c.iframeLoaded # d.iframeLoaded
    \/ c.iframeError # d.iframeError
    \/ c.iframeKey # d.iframeKey

\* the dependencies of the iframe interval effect changed
IframeIntervalDeps(c, d) ==
    \/ ~d.mounted
    \/ c.useFallbackIframe # d.useFallbackIframe
    \/ c.iframeIsWatching # d.iframeIsWatching
    \/ c.isTabVisible # d.isTabVisible

\* the commit: <iframe key={iframeKey}> is a new element when the key changed,
\* then the cleanups of the effects whose dependencies changed
FallbackCleanups(x, c, d) ==
    LET timeout == ~d.mounted \/ c.byte # d.byte \/ LoadTimeoutDeps(c, d)
        advance == ~d.mounted \/ c.loopCount # d.loopCount \/ c.byte # d.byte
        autoStart == ~d.mounted \/ c.byte # d.byte \/ c.autoStart # d.autoStart
    IN  [x EXCEPT !.ui.frameLoading = IF ~d.mounted \/ c.iframeKey # d.iframeKey
                                      THEN TRUE ELSE @,
                  !.ui.iframeTimeout = IF timeout THEN FALSE ELSE @,
                  !.ui.advanceTimer = IF advance THEN FALSE ELSE @,
                  !.ui.iframeInterval = IF IframeIntervalDeps(c, d) THEN FALSE ELSE @,
                  !.ui.autoStartTimer = IF autoStart THEN FALSE ELSE @]

\* a reset effect that leaves the tracking flag of the previous item on
FallbackResetEffect_KeepWatching(x, c, d) ==
    IF d.mounted /\ c.byte = d.byte THEN x
    ELSE [x EXCEPT !.ui.loopCount = 0,
                   !.ui.isPlaying = FALSE,
                   !.ui.didMarkCompleted = FALSE,
                   !.ui.videoError = FALSE,
                   !.ui.useFallbackIframe = TRUE,
                   !.ui.iframeLoaded = FALSE,
                   !.ui.iframeError = FALSE,
                   !.ui.iframeKey = @ + 1,
                   !.ui.iframeWatchTime = 0,
                   !.ui.videoEndedThisSession = FALSE,
                   !.ui.iframeTimeout = FALSE,
                   !.ui.iframeInterval = FALSE,
                   !.session = NoSession]

\* a reset effect that tries the <video> element first for each item
FallbackResetEffect_TryDirect(x, c, d) ==
    IF d.mounted /\ c.byte = d.byte THEN x
    ELSE [x EXCEPT !.ui.loopCount = 0,
                   !.ui.isPlaying = FALSE,
                   !.ui.didMarkCompleted = FALSE,
                   !.ui.videoError = FALSE,
                   !.ui.useFallbackIframe = FALSE,
                   !.ui.iframeLoaded = FALSE,
                   !.ui.iframeError = FALSE,
                   !.ui.iframeKey = @ + 1,
                   !.ui.iframeWatchTime = 0,
                   !.ui.iframeIsWatching = FALSE,
                   !.ui.videoEndedThisSession = FALSE,
                   !.ui.iframeTimeout = FALSE,
                   !.ui.iframeInterval = FALSE,
                   !.session = NoSession]

\* "Reset state when byte changes": [byte.byte_id]
FallbackResetEffect(x, c, d) ==
    IF d.mounted /\ c.byte = d.byte THEN x
    ELSE [x EXCEPT !.ui.loopCount = 0,
                   !.ui.isPlaying = FALSE,
                   !.ui.didMarkCompleted = FALSE,
                   !.ui.videoError = FALSE,
                   !.ui.useFallbackIframe = TRUE,
                   !.ui.iframeLoaded = FALSE,
                   !.ui.iframeError = FALSE,
                   !.ui.iframeKey = @ + 1,
                   !.ui.iframeWatchTime = 0,
                   !.ui.iframeIsWatching = FALSE,
                   !.ui.videoEndedThisSession = FALSE,
                   !.ui.iframeTimeout = FALSE,
                   !.ui.iframeInterval = FALSE,
                   !.session = NoSession]

\* a load-timeout effect that starts no timer
LoadTimeoutEffect_NoTimer(x, c, d) == x

\* "Iframe load timeout": [useFallbackIframe, iframeLoaded, iframeError, iframeKey]
LoadTimeoutEffect(x, c, d) ==
    IF ~LoadTimeoutDeps(c, d) THEN x
    ELSE IF ~c.useFallbackIframe \/ c.iframeLoaded \/ c.iframeError THEN x
    ELSE [x EXCEPT !.ui.iframeTimeout = TRUE]

\* "Iframe simulated progress tracking": [useFallbackIframe, iframeIsWatching, isTabVisible]
IframeIntervalEffect(x, c, d) ==
    IF ~IframeIntervalDeps(c, d) THEN x
    ELSE IF ~c.useFallbackIframe \/ ~c.iframeIsWatching \/ ~c.isTabVisible
         THEN [x EXCEPT !.ui.iframeInterval = FALSE]
         ELSE [x EXCEPT !.ui.iframeInterval = TRUE]

\* "Update progress from iframe watch time": runs after every render,
\* onMarkCompleted being a new function each time
IframeProgressEffect(x, c, d, t) ==
    IF ~c.useFallbackIframe \/ ~c.iframeIsWatching \/ ~c.isTabVisible THEN x
    ELSE LET percentage == IframePercentage(c.watchTime, c.videoDuration)
             forwarded ==
                 IF ~c.isCompleted /\ percentage > c.currentProgress
                 THEN handleProgressUpdate(x, c, percentage, t)
                 ELSE x
             ended ==
                 [forwarded EXCEPT !.ui.didMarkCompleted = TRUE,
                                   !.ui.videoEndedThisSession = TRUE,
                                   !.ui.iframeInterval = FALSE]
             marked ==
                 IF (percentage >= CompletionThreshold \/ c.watchTime >= c.videoDuration)
                    /\ ~forwarded.ui.didMarkCompleted
                 THEN IF ~c.isCompleted THEN onMarkCompleted(ended, c, t) ELSE ended
                 ELSE forwarded
         IN  IF c.watchTime >= c.videoDuration /\ marked.ui.iframeInterval
             THEN [marked EXCEPT !.ui.videoEndedThisSession = TRUE,
                                 !.ui.loopCount = @ + 1,
                                 !.ui.iframeWatchTime = 0]
             ELSE marked

\* the effects of one commit in source order, the child's before the parent's
FallbackEffects(x, d, t) ==
    LET c == FallbackRender(x)
        x0 == FallbackCleanups(x, c, d)
        x1 == FallbackResetEffect(x0, c, d)
        x2 == LoadTimeoutEffect(x1, c, d)
        x3 == AdvanceEffect(x2, c, d)
        x4 == IframeIntervalEffect(x3, c, d)
        x5 == IframeProgressEffect(x4, c, d, t)
    IN  AutoStartResetEffect(x5, c, d)

RECURSIVE FallbackSettle(_, _, _)
\* render and run effects until no effect changes anything
FallbackSettle(x, d, t) ==
    LET n == FallbackEffects(x, d, t)
    IN  IF n = x THEN x ELSE FallbackSettle(n, FallbackRender(x), t)

\* an event handler changed the state to x: re-render from the current commit
FallbackHandle(name, x) ==
    \E n \in {FallbackSettle(x, FallbackRender(View), now)} :
        /\ ui' = n.ui
        /\ progress' = n.progress
        /\ storage' = n.storage
        /\ calls' = n.calls
        /\ session' = n.session
        /\ op' = Call(name, Bytes[ui.currentByte], 0, FALSE)
        /\ lastWrite' = NoWrite
        /\ threw' = FALSE
        /\ UNCHANGED <<loaded, now, failures>>

\* a click or a visibility change
FallbackUserEvent(name, x) ==
    /\ events < MaxUserEvents
    /\ events' = events + 1
    /\ FallbackHandle(name, x)

\* a timer callback or the frame's load event
FallbackTimerEvent(name, x) ==
    /\ UNCHANGED events
    /\ FallbackHandle(name, x)

----------------------------------------------------------------------------
(* Events of the Watch page with the iframe-fallback player *)

\* document visibilitychange: setIsTabVisible(!document.hidden)
FallbackVisibilityChange ==
    /\ loaded
    /\ FallbackUserEvent("visibilitychange", [View EXCEPT !.ui.isTabVisible = ~@])

\* <iframe onLoad>: the frame that is mounted fires load.  The 500 ms timer of
\* Watch changes autoStartVideo only, which this player never reads, so it
\* commutes with the player's timers and the frame's load: it is taken first.
IframeLoad ==
    /\ ui.frameLoading
    /\ ~ui.autoStartTimer
    /\ FallbackTimerEvent("onLoad",
                          [View EXCEPT !.ui.frameLoading = FALSE,
                                       !.ui.iframeLoaded = TRUE,
                                       !.ui.iframeError = FALSE,
                                       !.ui.iframeIsWatching = TRUE])

\* the IFRAME_LOAD_TIMEOUT timer fires: if (!iframeLoaded) setIframeError(true),
\* iframeLoaded being false in the render that started the timer
LoadTimeout ==
    /\ ui.iframeTimeout
    /\ ~ui.autoStartTimer
    /\ FallbackTimerEvent("loadTimeout",
                          [View EXCEPT !.ui.iframeTimeout = FALSE,
                                       !.ui.iframeError = TRUE])

\* the one-second interval fires: setIframeWatchTime(prev => prev + 1)
IframeTick ==
    /\ ui.iframeInterval
    /\ ~ui.autoStartTimer
    /\ ui.loopCount < MaxLoops
    /\ FallbackTimerEvent("tick", [View EXCEPT !.ui.iframeWatchTime = @ + 1])

\* a retry that clears the error but keeps the frame that failed
RetryIframe_KeepFrame ==
    /\ ui.isTabVisible
    /\ ui.useFallbackIframe /\ ~ui.iframeLoaded /\ ui.iframeError
    /\ FallbackUserEvent("handleRetryIframe",
                         [View EXCEPT !.ui.iframeError = FALSE,
                                      !.ui.iframeLoaded = FALSE])

\* handleRetryIframe: the Retry button is rendered when !iframeLoaded && iframeError
RetryIframe ==
    /\ ui.isTabVisible
    /\ ui.useFallbackIframe /\ ~ui.iframeLoaded /\ ui.iframeError
    /\ FallbackUserEvent("handleRetryIframe",
                         [View EXCEPT !.ui.iframeError = FALSE,
                                      !.ui.iframeLoaded = FALSE,
                                      !.ui.iframeKey = @ + 1])

\* Watch.handleSelectByte (playlist click)
FallbackSelectByte ==
    /\ ui.isTabVisible
    /\ \E b \in 1..NumBytes :
         FallbackUserEvent("handleSelectByte",
                           [View EXCEPT !.ui.currentByte = b, !.ui.autoStartVideo = TRUE])

\* the Next button: disabled={byteNumber === totalBytes || !canProceedToNext}
FallbackClickNext ==
    /\ ui.isTabVisible
    /\ ui.currentByte < NumBytes
    /\ FallbackRender(View).canProceedToNext
    /\ FallbackUserEvent("handleNext", handleNext(View, FallbackRender(View), now))

\* handlePlayNext, the Up Next card: if (nextByte) onNext()
PlayNext ==
    /\ ui.isTabVisible
    /\ ui.currentByte < NumBytes
    /\ FallbackUserEvent("handlePlayNext", handleNext(View, FallbackRender(View), now))

\* Watch.handlePrevious (button disabled on the first byte)
FallbackClickPrevious ==
    /\ ui.isTabVisible
    /\ ui.currentByte > 1
    /\ FallbackUserEvent("handlePrevious",
                         [View EXCEPT !.ui.currentByte = @ - 1, !.ui.autoStartVideo = TRUE])

\* Header: onResetProgress={resetAllProgress}, shown when completed > 0
FallbackResetProgress ==
    /\ ui.isTabVisible
    /\ getCompletedVideos(progress) # {}
    /\ \E r \in {resetAllProgress(progress, storage, FALSE)} :
         FallbackUserEvent("resetAllProgress",
                           [View EXCEPT !.progress = r.progress, !.storage = r.storage,
                                        !.session.wiped = TRUE])

\* the 500 ms timer of Watch fires: setAutoStartVideo(false)
FallbackAutoStartTimeout ==
    /\ ui.autoStartTimer
    /\ FallbackTimerEvent("autoStartTimeout",
                          [View EXCEPT !.ui.autoStartTimer = FALSE,
                                       !.ui.autoStartVideo = FALSE])

\* the 1 s auto-advance timer fires: onNext()
FallbackAdvanceTimeout ==
    /\ ui.advanceTimer
    /\ ~ui.autoStartTimer
    /\ FallbackTimerEvent("advanceTimeout",
                          handleNext([View EXCEPT !.ui.advanceTimer = FALSE],
                                     FallbackRender(View), now))

\* the page after mount: the store has loaded nothing, the first render's
\* effects have run
InitFallback ==
    /\ progress = EmptyMap
    /\ storage = NoData
    /\ loaded = TRUE
    /\ now = 0
    /\ threw = FALSE
    /\ op = Call("init", "", 0, FALSE)
    /\ lastWrite = NoWrite
    /\ failures = 0
    /\ ui = FallbackSettle([ui |-> InitialFallbackUi, progress |-> EmptyMap,
                             storage |-> NoData, calls |-> <<>>, session |-> NoSession],
                           FallbackUnmounted, 0).ui
    /\ events = 0
    /\ calls = <<>>
    /\ session = NoSession

NextFallback ==
    \/ FallbackVisibilityChange
    \/ IframeLoad
    \/ LoadTimeout
    \/ IframeTick
    \/ RetryIframe
    \/ FallbackSelectByte
    \/ FallbackClickNext
    \/ PlayNext
    \/ FallbackClickPrevious
    \/ FallbackResetProgress
    \/ FallbackAutoStartTimeout
    \/ FallbackAdvanceTimeout

SpecFallback == InitFallback /\ [][NextFallback]_vars


----------------------------------------------------------------------------
(* Watch, auto-complete revision: the page whose player reports the end of *)
(* a video through onAutoComplete, and which then moves to the next item   *)
(* after a delay of 1.5 s.                                                 *)

\* the playlist of this page (useBytes)
Playlist == <<"a", "b", "c">>

\* useState(null), then "Initialize current byte" with no lastVideoId stored;
\* timers holds, for each pending setTimeout of handleAutoComplete, the
\* position in the playlist that its callback captured (currentIndex + 1)
InitialWatch == [currentByte |-> 1, lastVideoId |-> "a", timers |-> {}]

\* setCurrentByte(byte), then the "Update last watched video" effect
setCurrentByte(u, i) ==
    [u EXCEPT !.currentByte = i, !.lastVideoId = Playlist[i]]

\* the callback of handleAutoComplete's timer, which captured position i
AutoAdvance(u, i) ==
    LET fired == [u EXCEPT !.timers = @ \ {i}]
    IN  IF i < Len(Playlist) THEN setCurrentByte(fired, i + 1) ELSE fired

\* the event of this page has been handled
Watched(name, u, r) ==
    /\ ui' = u
    /\ progress' = r.progress
    /\ storage' = r.storage
    /\ op' = Call(name, Playlist[ui.currentByte], 0, FALSE)
    /\ lastWrite' = NoWrite
    /\ threw' = FALSE
    /\ calls' = <<>>
    /\ UNCHANGED <<loaded, now, failures, session>>

\* a click or a keyboard shortcut
WatchUserEvent(name, u) ==
    /\ events < MaxUserEvents
    /\ events' = events + 1
    /\ Watched(name, u, [progress |-> progress, storage |-> storage])

\* handleSelectByte (playlist click)
AutoCompleteSelectByte ==
    \E i \in DOMAIN Playlist :
        /\ i # ui.currentByte
        /\ WatchUserEvent("handleSelectByte", setCurrentByte(ui, i))

\* handlePrevious
AutoCompletePrevious ==
    /\ ui.currentByte > 1
    /\ WatchUserEvent("handlePrevious", setCurrentByte(ui, ui.currentByte - 1))

\* handleNext of this revision: no completion, no gate
AutoCompleteNext ==
    /\ ui.currentByte < Len(Playlist)
    /\ WatchUserEvent("handleNext", setCurrentByte(ui, ui.currentByte + 1))

\* handleAutoComplete, called by the player when the video ends or reaches
\* 95%: markCompleted, then setTimeout(..., 1500), whose handle is dropped
handleAutoComplete ==
    /\ Playlist[ui.currentByte] \notin getCompletedVideos(progress)
    /\ events' = events
    /\ Watched("handleAutoComplete",
               [ui EXCEPT !.timers = @ \cup {ui.currentByte}],
               markCompleted(progress, storage, Playlist[ui.currentByte], now, FALSE))

\* a timer of handleAutoComplete fires 1.5 s after it was started
AutoCompleteTimeout ==
    \E i \in ui.timers :
        /\ events' = events
        /\ Watched("autoCompleteTimeout", AutoAdvance(ui, i),
                   [progress |-> progress, storage |-> storage])

InitAutoComplete ==
    /\ progress = EmptyMap
    /\ storage = NoData
    /\ loaded = TRUE
    /\ now = 0
    /\ threw = FALSE
    /\ op = Call("init", "", 0, FALSE)
    /\ lastWrite = NoWrite
    /\ failures = 0
    /\ ui = InitialWatch
    /\ events = 0
    /\ calls = <<>>
    /\ session = NoSession

NextAutoComplete ==
    \/ AutoCompleteSelectByte
    \/ AutoCompletePrevious
    \/ AutoCompleteNext
    \/ handleAutoComplete
    \/ AutoCompleteTimeout

SpecAutoComplete == InitAutoComplete /\ [][NextAutoComplete]_vars


----------------------------------------------------------------------------
(* VideoActions: the like button and the feedback form of the player, with *)
(* the hooks useFingerprint, useVideoLikes and useVideoFeedback and the    *)
(* tables video_likes and video_feedback of the remote store.              *)

\* rows of video_likes that carry another user's fingerprint
OtherLikes == [a |-> 1, b |-> 0]

\* the rating a user submits (CHECK rating >= 1 AND rating <= 5)
Ratings == {5}

\* userFeedback === null
NoFeedback == [id |-> 0, rating |-> 0]

\* how a request to the remote store ends: the row operation is done and
\* { data, error: null } comes back; nothing is done and { data: null, error }
\* comes back; nothing is done and the awaited promise rejects
Replies == {"ok", "error", "throw"}

\* the useState initial values of the three hooks, no request in flight;
\* likes and feedback are this user's rows in the remote tables
InitialActions ==
    [byteId |-> "a", fingerprint |-> "",
     likesCount |-> 0, isLiked |-> FALSE, isLoading |-> FALSE,
     userFeedback |-> NoFeedback, isSubmitting |-> FALSE,
     likes |-> {}, feedback |-> <<>>,
     requests |-> {}, returned |-> "none"]

\* a request in flight, with the values its continuation captured
Request(kind, byteId, rating) == [kind |-> kind, byteId |-> byteId, rating |-> rating]

\* select('*', { count: 'exact', head: true }).eq('byte_id', byteId)
countLikes(u, byteId) == OtherLikes[byteId] + (IF byteId \in u.likes THEN 1 ELSE 0)

\* select('*').eq(byte_id).eq(user_fingerprint).order(created_at desc).limit(1)
latestFeedback(u, byteId) ==
    LET mine == {i \in DOMAIN u.feedback : u.feedback[i].byteId = byteId}
    IN  IF mine = {} THEN NoFeedback
        ELSE LET last == CHOOSE i \in mine : \A j \in mine : j <= i
             IN  [id |-> last, rating |-> u.feedback[last].rating]

\* the fetch effects of useVideoLikes and useVideoFeedback, [byteId, fingerprint]:
\* each sends its first query
FetchEffects(u) ==
    IF u.byteId = "" \/ u.fingerprint = "" THEN u
    ELSE [u EXCEPT !.requests = @ \cup {Request("count", u.byteId, 0),
                                        Request("feedback", u.byteId, 0)}]

\* fetchLikes after its first await: setLikesCount(count || 0), second query
fetchLikesCounted(u, r, reply) ==
    LET done == [u EXCEPT !.requests = @ \ {r}]
    IN  IF reply = "throw" THEN done
        ELSE [done EXCEPT !.likesCount = IF reply = "ok" THEN countLikes(u, r.byteId)
                                         ELSE 0,
                          !.requests = @ \cup {Request("liked", r.byteId, 0)}]

\* fetchLikes after its second await: setIsLiked(!!data)
fetchLikesChecked(u, r, reply) ==
    LET done == [u EXCEPT !.requests = @ \ {r}]
    IN  IF reply = "throw" THEN done
        ELSE [done EXCEPT !.isLiked = reply = "ok" /\ r.byteId \in u.likes]

\* fetchFeedback after its await: setUserFeedback(data ? {...} : null)
fetchFeedback(u, r, reply) ==
    LET done == [u EXCEPT !.requests = @ \ {r}]
    IN  IF reply = "throw" THEN done
        ELSE [done EXCEPT !.userFeedback = IF reply = "ok"
                                           THEN latestFeedback(u, r.byteId)
                                           ELSE NoFeedback]

\* toggleLike up to its await
toggleLike(u) ==
    IF u.fingerprint = "" \/ u.isLoading THEN u
    ELSE [u EXCEPT !.isLoading = TRUE,
                   !.requests = @ \cup {Request(IF u.isLiked THEN "unlike" ELSE "like",
                                                u.byteId, 0)}]

\* the remote store handles delete().eq(byte_id).eq(user_fingerprint) or
\* insert({ byte_id, user_fingerprint }) under UNIQUE(byte_id, user_fingerprint)
likesAfter(u, r, reply) ==
    IF reply # "ok" THEN u.likes
    ELSE IF r.kind = "unlike" THEN u.likes \ {r.byteId}
    ELSE u.likes \cup {r.byteId}

\* toggleLike after its await: the reply's error is not read
toggleLiked(u, r, reply) ==
    LET done == [u EXCEPT !.requests = @ \ {r}, !.likes = likesAfter(u, r, reply),
                          !.isLoading = FALSE]
    IN  IF reply = "throw" THEN done
        ELSE IF r.kind = "unlike"
        THEN [done EXCEPT !.isLiked = FALSE,
                          !.likesCount = IF @ > 0 THEN @ - 1 ELSE 0]
        ELSE [done EXCEPT !.isLiked = TRUE, !.likesCount = @ + 1]

\* submitFeedback up to its await
submitFeedback(u, rating) ==
    IF u.fingerprint = "" \/ u.isSubmitting THEN [u EXCEPT !.returned = "false"]
    ELSE [u EXCEPT !.isSubmitting = TRUE, !.returned = "none",
                   !.requests = @ \cup {Request("submit", u.byteId, rating)}]

\* a submitFeedback without its catch clause
submitted_NoCatch(u, r, reply) ==
    LET done == [u EXCEPT !.requests = @ \ {r}, !.isSubmitting = FALSE]
    IN  IF reply = "ok"
        THEN [done EXCEPT !.feedback = Append(@, [byteId |-> r.byteId,
                                                   rating |-> r.rating]),
                          !.userFeedback = [id |-> Len(u.feedback) + 1,
                                            rating |-> r.rating],
                          !.returned = "true"]
        ELSE [done EXCEPT !.returned = "rejected"]

\* submitFeedback after its await: if (error) throw error; setUserFeedback;
\* return true; catch: return false; finally: setIsSubmitting(false)
submitted(u, r, reply) ==
    LET done == [u EXCEPT !.requests = @ \ {r}, !.isSubmitting = FALSE]
    IN  IF reply = "ok"
        THEN [done EXCEPT !.feedback = Append(@, [byteId |-> r.byteId,
                                                   rating |-> r.rating]),
                          !.userFeedback = [id |-> Len(u.feedback) + 1,
                                            rating |-> r.rating],
                          !.returned = "true"]
        ELSE [done EXCEPT !.returned = "false"]

\* a step of VideoActions has been taken
Acted(name, u) ==
    /\ ui' = u
    /\ op' = Call(name, ui.byteId, 0, FALSE)
    /\ UNCHANGED <<progress, storage, loaded, now, threw, lastWrite, calls, session>>

\* a click, or a call by the component; the requests in flight are bounded
ActionsUserEvent(name, u) ==
    /\ events < MaxUserEvents
    /\ Cardinality(u.requests) <= MaxInFlight
    /\ events' = events + 1
    /\ failures' = failures
    /\ Acted(name, u)

\* the reply to request r arrives; the replies that fail are bounded
Replied(name, reply, u) ==
    /\ reply # "ok" => failures < MaxFailures
    /\ failures' = IF reply = "ok" THEN failures ELSE failures + 1
    /\ events' = events
    /\ Acted(name, u)

\* the mount effect of useFingerprint, then the fetch effects
FingerprintReady ==
    /\ ui.fingerprint = ""
    /\ events' = events
    /\ failures' = failures
    /\ Acted("useFingerprint", FetchEffects([ui EXCEPT !.fingerprint = "fp"]))

\* the player shows another item: <VideoActions byteId={byte.byte_id} />
ChangeByteId ==
    \E b \in Items \ {ui.byteId} :
        ActionsUserEvent("byteId", FetchEffects([ui EXCEPT !.byteId = b]))

\* the like button, disabled={likeLoading}
ClickLike ==
    /\ ~ui.isLoading
    /\ ActionsUserEvent("toggleLike", toggleLike(ui))

\* a call of the hook's submitFeedback (VideoActions calls it from the form's
\* button, which it disables while isSubmitting)
SubmitFeedback ==
    /\ events < MaxUserEvents
    /\ \E rating \in Ratings :
         ActionsUserEvent("submitFeedback", submitFeedback(ui, rating))

FetchLikesReply ==
    \E r \in ui.requests, reply \in Replies :
        \/ /\ r.kind = "count"
           /\ Replied("fetchLikes", reply, fetchLikesCounted(ui, r, reply))
        \/ /\ r.kind = "liked"
           /\ Replied("fetchLikes", reply, fetchLikesChecked(ui, r, reply))

FetchFeedbackReply ==
    \E r \in ui.requests, reply \in Replies :
        /\ r.kind = "feedback"
        /\ Replied("fetchFeedback", reply, fetchFeedback(ui, r, reply))

ToggleLikeReply ==
    \E r \in ui.requests, reply \in Replies :
        /\ r.kind \in {"like", "unlike"}
        /\ Replied("toggleLiked", reply, toggleLiked(ui, r, reply))

SubmitFeedbackReply ==
    \E r \in ui.requests, reply \in Replies :
        /\ r.kind = "submit"
        /\ Replied("submitted", reply, submitted(ui, r, reply))

InitActions ==
    /\ progress = EmptyMap
    /\ storage = NoData
    /\ loaded = TRUE
    /\ now = 0
    /\ threw = FALSE
    /\ op = Call("init", "", 0, FALSE)
    /\ lastWrite = NoWrite
    /\ failures = 0
    /\ ui = InitialActions
    /\ events = 0
    /\ calls = <<>>
    /\ session = NoSession

NextActions ==
    \/ FingerprintReady
    \/ ChangeByteId
    \/ ClickLike
    \/ SubmitFeedback
    \/ FetchLikesReply
    \/ FetchFeedbackReply
    \/ ToggleLikeReply
    \/ SubmitFeedbackReply

SpecActions == InitActions /\ [][NextActions]_vars

----------------------------------------------------------------------------
(* Properties of the Progress Store *)

\* C1: in every reachable state of the store, after load and after any
\* sequence of updateProgress, markCompleted, resetVideoProgress and
\* resetAllProgress calls, and after a restart that reloads the persisted
\* data, every record with isCompleted true has percentage 100.
C1_CompletedIsFull ==
    \A k \in DOMAIN progress :
        progress[k].isCompleted => progress[k].percentage = Full

\* a completed record written in this run (lastWatched > 0) is back in memory
\* after a restart and load
C1_Witness ==
    /\ op.name = "load"
    /\ \E k \in DOMAIN progress :
         progress[k].isCompleted /\ progress[k].lastWatched > 0

\* C2: updateProgress(id, p) followed by updateProgress(id, p2) with p2 < p
\* leaves the stored percentage where the first call left it, and no
\* updateProgress or markCompleted call ever lowers the stored percentage of
\* any item.
C2_Monotonic ==
    [][ /\ (/\ op.name = "updateProgress" /\ op'.name = "updateProgress"
            /\ op.id \in Items /\ op'.id = op.id
            /\ op.pct >= 0 /\ op'.pct < op.pct)
           => /\ Has(progress, op.id) /\ Has(progress', op.id)
              /\ progress'[op.id].percentage = progress[op.id].percentage
        /\ op'.name \in {"updateProgress", "markCompleted"}
           => \A k \in DOMAIN progress :
                 /\ Has(progress', k)
                 /\ progress'[k].percentage >= progress[k].percentage ]_vars

\* a lower report was rejected: the record still shows more than the call asked for
C2_Witness ==
    /\ op.name = "updateProgress"
    /\ op.id \in Items
    /\ op.pct >= 0
    /\ Has(progress, op.id)
    /\ ~progress[op.id].isCompleted
    /\ progress[op.id].percentage > op.pct

\* C3: updateProgress(id, p) with p >= 95 leaves the item completed with
\* percentage exactly 100, and a completed item stays completed across every
\* later updateProgress and markCompleted call on any item.
C3_Threshold ==
    [][ /\ (op'.name = "updateProgress" /\ op'.id \in Items
            /\ op'.pct >= CompletionThreshold)
           => /\ Has(progress', op'.id)
              /\ progress'[op'.id].isCompleted
              /\ progress'[op'.id].percentage = Full
        /\ op'.name \in {"updateProgress", "markCompleted"}
           => \A k \in Items :
                 isCompleted(progress, k) => isCompleted(progress', k) ]_vars

\* a report of exactly 95 was accepted, written, and stored as completed at 100
C3_Witness ==
    /\ op.name = "updateProgress"
    /\ op.id \in Items
    /\ op.pct = CompletionThreshold
    /\ lastWrite # NoWrite
    /\ isCompleted(progress, op.id)
    /\ progress[op.id].percentage = Full

\* the value the claim says a percentage argument is treated as
ClampTo0And100(p) == IF p < 0 THEN 0 ELSE Min(p, Full)

\* C4 as stated: updateProgress clamps its input to [0,100], so a call with a
\* value above 100 acts as the call with 100 and a call with a value below 0
\* acts as the call with 0.
C4_ClampsBothEnds ==
    [][ (op'.name = "updateProgress" /\ op'.id \in Items)
        => LET r == updateProgress(progress, storage, op'.id,
                                   ClampTo0And100(op'.pct), now, op'.fail)
           IN  progress' = r.progress /\ storage' = r.storage ]_vars

\* C4 amended: a call with a value above 100 acts as the call with 100; a
\* call with a value below 0 is ignored: no record is created or changed and
\* nothing is written.
C4_ClampsAboveIgnoresBelow ==
    [][ (op'.name = "updateProgress" /\ op'.id \in Items)
        => /\ op'.pct > Full
              => LET r == updateProgress(progress, storage, op'.id, Full, now, op'.fail)
                 IN  progress' = r.progress /\ storage' = r.storage
           /\ op'.pct < 0
              => /\ progress' = progress
                 /\ storage' = storage
                 /\ lastWrite' = NoWrite ]_vars

\* a negative report for an item without a record left it without one
C4_Witness ==
    /\ op.name = "updateProgress"
    /\ op.id \in Items
    /\ op.pct < 0
    /\ ~Has(progress, op.id)
    /\ loaded

\* C5: updateProgress on a record that is completed with percentage 100
\* changes no record and writes nothing, for every percentage argument; on a
\* record that is completed with another percentage the only change is that
\* its percentage becomes 100 (a negative argument changes nothing at all).
C5_CompletedFrozen ==
    [][ (op'.name = "updateProgress" /\ op'.id \in Items
         /\ isCompleted(progress, op'.id))
        => IF progress[op'.id].percentage = Full \/ op'.pct < 0
           THEN /\ progress' = progress
                /\ storage' = storage
                /\ lastWrite' = NoWrite
           ELSE progress' =
                  Put(progress, op'.id, [progress[op'.id] EXCEPT !.percentage = Full]) ]_vars

\* an inconsistent completed record (the legacy one, watchedSeconds 12) was
\* repaired by updateProgress and saved
C5_Witness ==
    /\ op.name = "updateProgress"
    /\ op.id \in Items
    /\ lastWrite # NoWrite
    /\ isCompleted(progress, op.id)
    /\ progress[op.id].watchedSeconds = 12
    /\ progress[op.id].percentage = Full

\* a map with the lastWatched timestamps left out
StripTime(m) ==
    [k \in DOMAIN m |->
        [watchedSeconds |-> m[k].watchedSeconds, duration |-> m[k].duration,
         percentage |-> m[k].percentage, isCompleted |-> m[k].isCompleted]]

\* C6: markCompleted(id) leaves the item completed with percentage 100
\* whatever its record was before, leaves every other item's record as it
\* was, and applying it again changes nothing but lastWatched.
C6_MarkCompleted ==
    [][ (op'.name = "markCompleted" /\ op'.id \in Items)
        => /\ Has(progress', op'.id)
           /\ progress'[op'.id].isCompleted
           /\ progress'[op'.id].percentage = Full
           /\ \A k \in Items \ {op'.id} :
                 /\ Has(progress', k) <=> Has(progress, k)
                 /\ Has(progress, k) => progress'[k] = progress[k]
           /\ \A t \in 0..MaxClock, f \in BOOLEAN :
                 StripTime(markCompleted(progress', storage', op'.id, t, f).progress)
                   = StripTime(progress') ]_vars

\* markCompleted turned the partial legacy record (watchedSeconds 7) into a
\* completed one
C6_Witness ==
    /\ op.name = "markCompleted"
    /\ op.id \in Items
    /\ isCompleted(progress, op.id)
    /\ progress[op.id].watchedSeconds = 7

\* C7: after resetAllProgress every item reads as absent and not completed,
\* the list of completed videos is empty, and the persisted store is gone,
\* so that a reload yields an empty store.
C7_ResetAllClears ==
    op.name = "resetAllProgress"
    => /\ \A k \in Items :
             getProgress(progress, k) = Null /\ ~isCompleted(progress, k)
       /\ getCompletedVideos(progress) = {}
       /\ storage = NoData
       /\ loadProgress(EmptyMap, storage, FALSE, FALSE).progress = EmptyMap

\* what the claim says a persisted record is loaded as
LoadedAs(data) ==
    IF data.isCompleted /\ data.percentage # Full
    THEN [data EXCEPT !.percentage = Full]
    ELSE IF data.percentage >= CompletionThreshold /\ ~data.isCompleted
    THEN [data EXCEPT !.isCompleted = TRUE, !.percentage = Full]
    ELSE data

\* C8: on load, a completed record with percentage other than 100 is repaired
\* to 100, a record at 95 or more that is not completed is promoted to
\* completed at 100, every other record is loaded as stored, and when a
\* record was repaired the normalized map is written back to storage.
C8_LoadNormalizes ==
    [][ (op'.name = "load" /\ ~op'.readFail /\ storage.kind = "json")
        => LET parsed == Parse(storage)
           IN  /\ progress' = [k \in DOMAIN parsed |-> LoadedAs(parsed[k])]
               /\ (\E k \in DOMAIN parsed : LoadedAs(parsed[k]) # parsed[k])
                  => lastWrite' = [call |-> "setItem", text |-> Stringify(progress')] ]_vars

\* a load promoted the legacy record stored at 96 and saved the result
C8_Witness ==
    /\ op.name = "load"
    /\ lastWrite # NoWrite
    /\ ~op.fail
    /\ storage = Stringify(progress)
    /\ \E k \in DOMAIN progress :
         progress[k].isCompleted /\ progress[k].watchedSeconds = 0
         /\ progress[k].lastWatched = 0

\* C9: no storage failure reaches the caller.  When the write fails during
\* updateProgress, markCompleted or resetVideoProgress the in-memory store
\* holds what the call would have stored had the write succeeded; when the
\* read or the parse fails on load the store starts empty.
C9_StorageFailuresNonFatal ==
    [][ /\ threw' = FALSE
        /\ (op'.fail /\ op'.name = "updateProgress")
           => progress' = updateProgress(progress, storage, op'.id, op'.pct,
                                         now, FALSE).progress
        /\ (op'.fail /\ op'.name = "markCompleted")
           => progress' = markCompleted(progress, storage, op'.id, now, FALSE).progress
        /\ (op'.fail /\ op'.name = "resetVideoProgress")
           => progress' = Without(progress, op'.id)
        /\ (op'.name = "load" /\ (op'.readFail \/ storage.kind \in {"corrupt", "malformed"}))
           => progress' = EmptyMap ]_vars

\* the write failed during markCompleted: the item is completed in memory and
\* storage does not have it
C9_Witness ==
    /\ op.name = "markCompleted"
    /\ op.fail
    /\ isCompleted(progress, op.id)
    /\ storage # Stringify(progress)
    /\ ~threw

----------------------------------------------------------------------------
(* Properties of the watch-time estimator *)

\* the session is active: the user is watching and the tab is visible
Active(u) == u.isWatching /\ u.isTabVisible

\* C10: the one-second interval is registered only while the session is
\* active (isWatching and the tab visible).  Watch time changes in a session
\* only by a tick, which happens in an active session and adds exactly 1
\* (the tick that reaches the assumed duration wraps it to 0); while the tab
\* is hidden or the session is inactive it keeps its value, the one other
\* change being the reset to 0 when the session itself is replaced (the item,
\* the engagement flag or autoStart changes).  A visibility change leaves
\* watch time as it is, and when the tab of a watching session becomes
\* visible the interval is registered again, so ticking resumes from the
\* value held while hidden.
C10_EstimatorSuspension ==
    [][ LET sessionReplaced ==
                \/ ui'.currentByte # ui.currentByte
                \/ ui'.hasUserEngaged # ui.hasUserEngaged
                \/ ui'.autoStartVideo # ui.autoStartVideo
        IN  /\ ui'.progressInterval => Active(ui')
            /\ op'.name = "tick"
               => /\ Active(ui)
                  /\ IF ui.watchTime + 1 < ESTIMATED_VIDEO_DURATION
                     THEN ui'.watchTime = ui.watchTime + 1
                     ELSE ui'.watchTime = 0
            /\ op'.name # "tick"
               => \/ ui'.watchTime = ui.watchTime
                  \/ sessionReplaced /\ ui'.watchTime = 0
            /\ op'.name = "visibilitychange"
               => /\ ui'.watchTime = ui.watchTime
                  /\ ui'.isWatching = ui.isWatching
                  /\ Active(ui') => ui'.progressInterval ]_vars

\* the tab of a session that had accumulated watch time became visible again:
\* the value is retained and the interval runs
C10_Witness ==
    /\ op.name = "visibilitychange"
    /\ ui.isTabVisible
    /\ ui.isWatching
    /\ ui.progressInterval
    /\ ui.watchTime > 0

\* the calls of the last step that the progress effect forwarded
Forwarded(cs) == {i \in DOMAIN cs : cs[i].name = "updateProgress"}

\* C11 as stated: every percentage the estimator forwards to updateProgress
\* is min(watchTime / 60 * 100, 100), is strictly greater than the
\* percentage stored for the active item, the item is not completed, and it
\* is strictly greater than the percentage forwarded before it in the session.
C11_ForwardedStrictlyIncreasing ==
    [][ \A i \in Forwarded(calls') :
          LET call == calls'[i]
          IN  /\ call.pct = EstimatedPercentage(call.watchTime)
              /\ call.pct > call.stored
              /\ call.stored = call.inStore
              /\ ~call.completed
              /\ call.pct > call.prior ]_vars

\* C11 amended: every percentage the estimator forwards to updateProgress is
\* min(watchTime / 60 * 100, 100), is strictly greater than the percentage
\* stored for the active item, and the item is not completed; the values
\* forwarded in one session are strictly increasing as long as the store is
\* not reset (resetAllProgress) between them.
C11_ForwardedAboveStored ==
    [][ \A i \in Forwarded(calls') :
          LET call == calls'[i]
          IN  /\ call.pct = EstimatedPercentage(call.watchTime)
              /\ call.pct > call.stored
              /\ call.stored = call.inStore
              /\ ~call.completed
              /\ ~call.wiped => call.pct > call.prior ]_vars

\* a tick forwarded a percentage after an earlier one of the same session
C11_Witness ==
    /\ op.name = "tick"
    /\ \E i \in Forwarded(calls) :
         /\ calls[i].prior > 0
         /\ ~calls[i].wiped
         /\ calls[i].pct > calls[i].prior

\* the percentage of k seconds of a 60 second item
OfSixty(k) == (k * P(100)) \div 60

\* the store holds for the item what k ticks from no progress leave there
OnTrack(m, byteId, k) ==
    IF k = 0 THEN ~Has(m, byteId)
    ELSE /\ Has(m, byteId)
         /\ ~m[byteId].isCompleted
         /\ m[byteId].percentage = OfSixty(k)

\* C12: an item that starts with no progress is not completed after any of
\* the ticks 1..56 of continuous active watching, its stored percentage
\* following the watch time, and is completed with percentage 100 after
\* tick 57, the first tick whose percentage is at least 95, in the first loop.
C12_CompletedAtTick57 ==
    [][ LET byteId == Bytes[ui.currentByte]
            k == ui.watchTime + 1
        IN  (op'.name = "tick" /\ ui.loopCount = 0 /\ k <= 57
             /\ OnTrack(progress, byteId, ui.watchTime))
            => /\ ui'.loopCount = 0
               /\ ui'.watchTime = k
               /\ k < 57 => OnTrack(progress', byteId, k)
               /\ k < 57 => OfSixty(k) < CompletionThreshold
               /\ k = 57 => /\ OfSixty(k) >= CompletionThreshold
                            /\ isCompleted(progress', byteId)
                            /\ progress'[byteId].percentage = Full ]_vars

\* tick 57 of a session that began with no progress has completed the item
C12_Witness ==
    /\ op.name = "tick"
    /\ ui.loopCount = 0
    /\ ui.watchTime = 57
    /\ isCompleted(progress, Bytes[ui.currentByte])
    /\ \E i \in Forwarded(calls) : calls[i].stored = OfSixty(56) /\ calls[i].pct = OfSixty(57)

\* C13: the tick with which watch time reaches 60 happens in an active
\* session, increases the loop counter by exactly 1 and resets watch time to
\* 0; the loop counter changes in no other way during a session (the reset
\* effect sets it to 0 when the item, the engagement flag or autoStart
\* changes, which starts another session); watch time never exceeds 60.
C13_LoopSemantics ==
    [][ LET reaches == op'.name = "tick" /\ ui.watchTime + 1 = 60
            sessionReplaced ==
                \/ ui'.currentByte # ui.currentByte
                \/ ui'.hasUserEngaged # ui.hasUserEngaged
                \/ ui'.autoStartVideo # ui.autoStartVideo
        IN  /\ ui'.watchTime <= 60
            /\ reaches => /\ Active(ui)
                          /\ ui'.loopCount = ui.loopCount + 1
                          /\ ui'.watchTime = 0
            /\ ui'.loopCount # ui.loopCount
               => \/ reaches
                  \/ sessionReplaced /\ ui'.loopCount = 0 ]_vars

\* the sixtieth tick of a session closed its first loop
C13_Witness ==
    /\ op.name = "tick"
    /\ ui.loopCount = 1
    /\ ui.watchTime = 0
    /\ Active(ui)

----------------------------------------------------------------------------
(* Properties of the iframe-fallback player *)

\* the iframe session is active: the frame has loaded, tracking is on and the
\* tab is visible
FallbackActive(u) == u.iframeLoaded /\ u.iframeIsWatching /\ u.isTabVisible

\* C14: a session that is active on an item with a next item is on its way
\* to the auto-advance: until the loop counter has reached 3 the one-second
\* interval is registered, so that watch time keeps reaching the duration
\* and the counter keeps growing towards 3.
C14_TicksUntilThreeLoops ==
    (FallbackActive(ui) /\ ui.currentByte < NumBytes /\ ui.loopCount < 3)
    => ui.iframeInterval

\* the store call was made by one of the estimator's effects
ByEstimator(call) == call.by \in {"progress effect", "mark effect"}

\* C15 as stated: for an item whose duration field is absent or 0 the
\* estimator's percentage is 0 on every tick, so the estimator makes no
\* updateProgress or markCompleted call for such an item.
C15_UnknownDurationReportsNothing ==
    \A i \in DOMAIN calls : ByEstimator(calls[i]) => Duration[calls[i].id] # 0

\* C15: for an item whose duration field is absent or 0 the estimator assumes
\* DEFAULT_DURATION seconds: every percentage it forwards for such an item is
\* min(watchTime / 30 * 100, 100) and is positive, and it marks the item
\* completed only when that percentage has reached the threshold.
C15_UnknownDurationAssumesDefault ==
    \A i \in DOMAIN calls :
        ByEstimator(calls[i]) /\ Duration[calls[i].id] = 0 =>
            LET percentage == IframePercentage(calls[i].watchTime, DEFAULT_DURATION)
            IN  /\ calls[i].name = "updateProgress"
                   => calls[i].pct = percentage /\ percentage > 0
                /\ calls[i].name = "markCompleted"
                   => percentage >= CompletionThreshold

\* the item without a duration is completed by the estimator at second 29
C15_Witness ==
    /\ Duration[Bytes[ui.currentByte]] = 0
    /\ ui.iframeWatchTime = 29
    /\ \E i \in DOMAIN calls :
           /\ calls[i].name = "markCompleted"
           /\ calls[i].id = Bytes[ui.currentByte]
           /\ calls[i].watchTime = 29

FallbackLoading(u) == u.useFallbackIframe /\ ~u.iframeLoaded /\ ~u.iframeError
FallbackReady(u) == u.useFallbackIframe /\ u.iframeLoaded /\ ~u.iframeError
FallbackError(u) == u.useFallbackIframe /\ ~u.iframeLoaded /\ u.iframeError

\* C17: while the selector is in FallbackLoading the load timeout is pending;
\* a load signal that arrives while the timeout is pending leads to
\* FallbackReady and cancels the timeout; the expiry of the timeout leads to
\* FallbackError.
C17_FallbackLoadingOutcome ==
    [][ /\ FallbackLoading(ui') => ui'.iframeTimeout
        /\ op'.name = "onLoad" /\ ui.iframeTimeout
           => FallbackReady(ui') /\ ~ui'.iframeTimeout
        /\ op'.name = "loadTimeout"
           => FallbackLoading(ui) /\ FallbackError(ui') /\ ~ui'.iframeTimeout ]_vars

\* the frame's load signal arrived before the timeout
C17_Witness ==
    /\ op.name = "onLoad"
    /\ FallbackReady(ui)
    /\ ~ui.iframeTimeout /\ ~ui.frameLoading

\* C18: the retry action is taken from FallbackError and leads to
\* FallbackLoading with the error cleared, a new frame (the iframe key grows
\* by one) and a newly started load timeout; the iframe key changes, that is
\* a new load attempt is made, only in a retry or when the active item
\* changes.
C18_Retry ==
    [][ /\ op'.name = "handleRetryIframe"
           => /\ FallbackError(ui)
              /\ FallbackLoading(ui')
              /\ ui'.iframeKey = ui.iframeKey + 1
              /\ ui'.frameLoading
              /\ ui'.iframeTimeout
        /\ ui'.iframeKey # ui.iframeKey
           => \/ op'.name = "handleRetryIframe"
              \/ ui'.currentByte # ui.currentByte ]_vars

\* the user retried after a load timeout
C18_Witness ==
    /\ op.name = "handleRetryIframe"
    /\ FallbackLoading(ui)
    /\ ui.iframeKey = 2 /\ ui.frameLoading /\ ui.iframeTimeout

----------------------------------------------------------------------------
(* Properties of the page's timers *)

\* C19: a timer callback that runs when the item that was active at its
\* registration is no longer the active item changes neither the current
\* item nor the progress store: the timers of an item are cancelled when
\* the active item changes.
C19_NoCallbackAfterItemSwitch ==
    [][ op'.name = "autoCompleteTimeout"
        => \A i \in ui.timers \ ui'.timers :
               i # ui.currentByte
               => ui'.currentByte = ui.currentByte /\ progress' = progress ]_vars

----------------------------------------------------------------------------
(* Properties of the playback session *)

\* C20: when the active item changes, the new item's session starts with
\* watch time 0 and loop count 0, and the estimator makes no updateProgress
\* or markCompleted call for the new item in that change, the only watch
\* time there is having been accumulated on the previous item.
C20_SessionIsolation ==
    [][ ui'.currentByte # ui.currentByte
        => /\ ui'.watchTime = 0
           /\ ui'.loopCount = 0
           /\ \A i \in DOMAIN calls' :
                  ByEstimator(calls'[i]) => calls'[i].id # Bytes[ui'.currentByte] ]_vars

----------------------------------------------------------------------------
(* Properties of likes and feedback *)

\* C21: submitFeedback surfaces the outcome as its result.  A call without a
\* fingerprint or with a submission in flight returns false and sends no
\* request; when the insert fails the call returns false, userFeedback is
\* unchanged and isSubmitting is cleared; when it succeeds the call returns
\* true and userFeedback is the inserted row; the call never rejects.
C21_SubmitFeedbackResult ==
    [][ /\ ui'.returned # "rejected"
        /\ op'.name = "submitFeedback" /\ (ui.fingerprint = "" \/ ui.isSubmitting)
           => /\ ui'.returned = "false"
              /\ ui'.requests = ui.requests
              /\ ui'.feedback = ui.feedback
              /\ ui'.userFeedback = ui.userFeedback
        /\ op'.name = "submitted"
           => /\ ~ui'.isSubmitting
              /\ IF ui'.feedback = ui.feedback
                 THEN ui'.returned = "false" /\ ui'.userFeedback = ui.userFeedback
                 ELSE /\ ui'.returned = "true"
                      /\ Len(ui'.feedback) = Len(ui.feedback) + 1
                      /\ ui'.userFeedback =
                             [id |-> Len(ui'.feedback),
                              rating |-> ui'.feedback[Len(ui'.feedback)].rating] ]_vars

\* the remote insert failed and submitFeedback returned false
C21_Witness ==
    /\ op.name = "submitted"
    /\ ui.returned = "false"
    /\ ui.feedback = <<>> /\ ui.userFeedback = NoFeedback
    /\ ~ui.isSubmitting
    /\ failures = 1


\* C28: when a toggleLike call completes, isLiked is true exactly when the
\* remote store holds a like row of this user for the item that was toggled,
\* whether the insert or delete succeeded or failed; likesCount is never
\* negative.
C28_LikeStateMatchesStore ==
    [][ /\ ui'.likesCount >= 0
        /\ op'.name = "toggleLiked"
           => \A r \in ui.requests \ ui'.requests :
                  ui'.isLiked <=> r.byteId \in ui'.likes ]_vars


\* the fingerprint is known and no request is in flight
Settled(u) == u.fingerprint # "" /\ u.requests = {}

\* C29: once every request has been answered, none of them having failed,
\* likesCount, isLiked and userFeedback are the remote store's values for the
\* item that is shown now, whichever order the replies arrived in.
C29_StateOfCurrentItem ==
    (Settled(ui) /\ failures = 0)
    => /\ ui.isLiked <=> ui.byteId \in ui.likes
       /\ ui.likesCount = countLikes(ui, ui.byteId)
       /\ ui.userFeedback = latestFeedback(ui, ui.byteId)

----------------------------------------------------------------------------
(* Further properties of the players *)

\* C22: once the active item has been completed in this session, and while
\* the session stays active, the one-second interval stays registered, so
\* that watch time keeps advancing and loops keep being counted.
C22_TicksAfterCompletion ==
    (FallbackActive(ui) /\ ui.videoEndedThisSession
     /\ isCompleted(progress, Bytes[ui.currentByte]))
    => ui.iframeInterval

\* C23: once the user has engaged, a change of item with autoStart set
\* starts the new item's session without the overlay, and a session that is
\* watching without the overlay stays so in every step that neither hides
\* the tab nor changes the active item.
C23_AutoStartedSessionStays ==
    [][ /\ (ui.hasUserEngaged /\ ui'.currentByte # ui.currentByte
            /\ ui'.autoStartVideo)
           => ui'.isWatching /\ ~ui'.showStartOverlay
        /\ (ui.hasUserEngaged /\ ui.isWatching /\ ~ui.showStartOverlay
            /\ ui'.currentByte = ui.currentByte
            /\ ui.isTabVisible /\ ui'.isTabVisible)
           => ui'.isWatching /\ ~ui'.showStartOverlay ]_vars

\* C24: when a click on the start overlay has been handled and the effects
\* have settled, the overlay is hidden and the session is watching.
C24_ClickBeginsTracking ==
    [][ op'.name = "handleStartTracking"
        => ~ui'.showStartOverlay /\ ui'.isWatching ]_vars

\* C25: the Next button and the Up Next card of the player invoke onNext only
\* when canProceedToNext holds in the render they were clicked in, that is
\* when the item is completed or its video has ended in this session.
C25_NextIsGated ==
    [][ op'.name \in {"handleNext", "handlePlayNext"}
        => FallbackRender(View).canProceedToNext ]_vars

----------------------------------------------------------------------------
(* Further properties of the Progress Store *)

\* C26: while no storage call has failed, after the load and any sequence of
\* store calls the persisted text is the encoding of the in-memory map, and
\* loading it again yields exactly that map without normalizing anything
\* (the load writes nothing back).
C26_PersistenceRoundTrip ==
    (loaded /\ failures = 0)
    => LET r == loadProgress(EmptyMap, storage, FALSE, FALSE)
       IN  /\ r.progress = progress
           /\ r.write = NoWrite
           /\ storage.kind = "json" => Parse(storage) = progress
           /\ progress # EmptyMap => storage = Stringify(progress)

\* a record was written and the persisted text decodes to the map
C26_Witness ==
    /\ loaded /\ failures = 0
    /\ op.name \in {"updateProgress", "markCompleted", "resetVideoProgress"}
    /\ lastWrite # NoWrite
    /\ progress # EmptyMap
    /\ Parse(storage) = progress


\* C30: when removing the persisted key throws, resetAllProgress lets no
\* exception reach the caller and the in-memory map is emptied all the same.
C30_ResetAllSurvivesStorageFailure ==
    (op.name = "resetAllProgress" /\ op.fail)
    => /\ ~threw
       /\ progress = EmptyMap

----------------------------------------------------------------------------
(* Further properties of the iframe-fallback player *)

\* C27: tracking is on only while the frame is loaded, and the one-second
\* tick is counted only in FallbackReady.
C27_WatchingOnlyWhenLoaded ==
    [][ /\ ui'.iframeIsWatching => ui'.iframeLoaded
        /\ ui'.iframeInterval => FallbackReady(ui')
        /\ op'.name = "tick" => FallbackReady(ui) /\ ui.iframeIsWatching ]_vars

\* a tick is counted in a frame that loaded after a retry or an item change
C27_Witness ==
    /\ op.name = "tick"
    /\ ui.iframeKey >= 3
    /\ FallbackReady(ui) /\ ui.iframeIsWatching
    /\ ui.iframeWatchTime >= 1

====
